---- MODULE Spec2Model ----
(***************************************************************************)
(* Model of fluxfox-web's application state (src/src/app.rs): the UI       *)
(* thread's update pass (drop intake, load dispatch, rendering, channel    *)
(* drain), the background load workers it spawns, and the bounded channel  *)
(* between them.                                                           *)
(***************************************************************************)
EXTENDS Integers, Sequences, FiniteSets, TLC

(* ------------------------------ bounds -------------------------------- *)
\* Loads dispatched to a worker, over a whole run.
MaxLoads == 2
\* Files in one frame's input snapshot.
MaxSnapshot == 2
\* Progress reports the external loader makes, over all loads of a run.
MaxProgress == 1
\* Loads and progress reports of a run in which one load reports progress
\* more than once (specification SpecProgress).
ProgressLoads == 1
ProgressReports == 2
\* Times the host constructs the App (specification SpecPersist).
MaxRuns == 3
\* Slashes added to the end of a base URL or to the start of an asset path
\* (specification SpecUrl).
MaxSlashes == 2
\* Slots of the bounded channel; the program's sync_channel(128) (app.rs:77)
\* scaled down so that a full channel is reached within the other bounds.
ChannelCapacity == 2

(* --------------------------- value domains ---------------------------- *)
\* Option<T>: None is the empty sequence, Some(x) the one-element sequence.
None == <<>>
Some(x) == <<x>>

\* RunMode (app.rs:46-50)
Reactive == "Reactive"
Continuous == "Continuous"

\* File names the host may report, and the progress fractions (in percent)
\* the external loader may report.
Names == {"a.img", "b.img"}
Fractions == {25, 75}
Workers == 1..MaxLoads

\* egui::DroppedFile as far as the program reads it: a name and an optional
\* byte buffer.
DroppedFile == [name : Names, bytes : {None, Some("bytes")}]

\* The input snapshots of one frame (i.raw.dropped_files): no file, or a
\* first file followed by further files, which the program never reads and
\* which are taken to be copies of one other file.
Snapshots ==
  {<<>>} \cup {[i \in 1..n |-> IF i = 1 THEN f ELSE g] :
                 f \in DroppedFile, g \in DroppedFile, n \in 1..MaxSnapshot}

\* ThreadLoadStatus (app.rs:37-44).  val is the progress fraction of Loading
\* and the image handle of Success; the value of an Error is not modelled.  A message in the
\* channel also carries the history fields from (the sending worker) and seq
\* (its position among that worker's sends), which the program never reads.
Inactive == [kind |-> "Inactive", val |-> 0]
Loading(p) == [kind |-> "Loading", val |-> p]
Success(disk) == [kind |-> "Success", val |-> disk]
Error == [kind |-> "Error", val |-> 0]
Msg(status, w, n) == [kind |-> status.kind, val |-> status.val, from |-> w, seq |-> n]
IsTerminal(m) == m.kind \in {"Success", "Error"}

\* Strings that are trimmed and joined are sequences of characters.
\* The base URL of a hosting page, and the asset path of App::update (app.rs:165).
HostBase ==
  <<"h", "t", "t", "p", ":", "/", "/", "h", "o", "s", "t", "/", "a", "p", "p">>
LogoPath ==
  <<".", "/", "a", "s", "s", "e", "t", "s", "/", "f", "l", "u", "x", "f", "o", "x", "_", "l", "o", "g", "o", ".", "p", "n", "g">>

\* Base URLs and asset paths without the slashes that are trimmed, and the
\* inputs of construct_full_url made of them.
Slashes(n) == [i \in 1..n |-> "/"]
BareHost ==
  <<"h", "t", "t", "p", ":", "/", "/", "h", "o", "s", "t">>
DotPath ==
  <<".", "/", "x", ".", "p", "n", "g">>
PlainPath ==
  <<"x", ".", "p", "n", "g">>
DeepPath ==
  <<"i", "m", "g", "/", "x", ".", "p", "n", "g">>
BaseStems == {HostBase, BareHost}
PathStems == {DotPath, PlainPath, DeepPath, LogoPath}
Bases == {b \o Slashes(n) : b \in BaseStems, n \in 0..MaxSlashes}
Paths == {Slashes(n) \o q : q \in PathStems, n \in 0..MaxSlashes}

\* PersistentState (app.rs:52-58) and its derived Default: an empty label.
PersistentState(label) == [label |-> label]
PersistentStateDefault == PersistentState("")

\* Labels a stored snapshot may carry.  A snapshot is the set of its
\* <<field, value>> pairs; one written by another version of the program
\* may lack the label or carry a field this version does not know.
Labels == {"Hello World!", "", "fluxfox"}
SavedStates ==
  {l \cup o : l \in {{}} \cup {{<<"label", v>>} : v \in Labels},
              o \in {{}, {<<"theme", "dark">>}, {<<"theme", "light">>}}}
\* cc.storage: None when the host has no persistence store, else Some of
\* what the store holds under APP_KEY: None or Some snapshot.
Storages == {None, Some(None)} \cup {Some(Some(snap)) : snap \in SavedStates}

VARIABLES
  run_mode,         \* App.run_mode
  dropped_files,    \* App.dropped_files: the pending-file slot
  load_status,      \* App.load_status
  disk_image,       \* App.disk_image: Option of an image handle
  disk_image_name,  \* App.disk_image_name
  chan,             \* the messages buffered in the sync_channel
  workers,          \* the background load threads, by load number
  ui_pc,            \* position of the UI thread: "idle" between frames, "drain" in the receive loop
  repaint,          \* a repaint has been requested (ctx.request_repaint) and not yet run
  reports,          \* progress reports the external loader has made so far
  load_receiver,    \* App.load_receiver: TRUE while the App and its receiving end exist
  p_state,          \* App.p_state
  storage,          \* the host's persistence store (cc.storage), None when it has none
  runs,             \* times the host has constructed the App
  base_url,         \* what the hosting page's getBaseURL returns
  relative_path,    \* the asset path to resolve
  full_url,         \* the URL last resolved, None before the first
  applied,          \* history: per worker, the kinds of the statuses the UI has applied
  step              \* history: what the last step did

vars == <<run_mode, dropped_files, load_status, disk_image, disk_image_name, chan,
          workers, ui_pc, repaint, reports, load_receiver, applied, step,
          p_state, storage, runs, base_url, relative_path, full_url>>

\* The host's side: persistence store, construction count and base URL.
host == <<storage, runs, base_url, relative_path>>

\* A worker that has not been spawned.
\* name is the dropped file whose bytes the worker loads, result what the
\* external loader returned, pending the status a blocked send holds, sent
\* the kinds of the statuses sent so far.
NoWorker == [pc |-> "none", name |-> None, result |-> None, pending |-> None, sent |-> <<>>]

\* The history of a step: the operation, the message it received or sent, the
\* outcome of its dispatch ("none", "ok", "failed"), the worker concerned, and
\* of an update pass the first file and the length of its input snapshot and
\* the progress bar it rendered.
StepOf(op, msg, dispatch, w, snap) ==
  [op |-> op, msg |-> msg, dispatch |-> dispatch, worker |-> w,
   first |-> IF snap # <<>> THEN Some(snap[1]) ELSE None, nfiles |-> Len(snap),
   bar |-> None]

NoStep == StepOf("init", None, "none", 0, <<>>)
WorkerStep == StepOf("worker", None, "none", 0, <<>>)

\* App::default (app.rs:74-97)
AppDefault ==
  /\ p_state = PersistentState("Hello World!")
  /\ run_mode = Reactive
  /\ dropped_files = <<>>
  /\ load_status = Inactive
  /\ disk_image = None
  /\ disk_image_name = None
  /\ chan = <<>>
  /\ workers = [w \in Workers |-> NoWorker]
  /\ ui_pc = "idle"
  /\ repaint = TRUE   \* the host always paints the first frame
  /\ reports = 0
  /\ applied = [w \in Workers |-> <<>>]
  /\ step = NoStep
  /\ full_url = None

\* The App constructed on a host without a persistence store (App::new,
\* app.rs:101-121, with cc.storage None), serving the page at HostBase.
Init ==
  /\ AppDefault
  /\ load_receiver = TRUE
  /\ storage = None
  /\ runs = 1
  /\ base_url = HostBase
  /\ relative_path = LogoPath

(* --------------------------- persistence ------------------------------ *)
\* Serialize for PersistentState (derived, app.rs:52): the label field.
Serialize(ps) == {<<"label", ps.label>>}

\* Deserialize for PersistentState with #[serde(default)] (app.rs:52-55): a
\* missing field is taken from PersistentState::default(), an unknown field
\* is skipped.
Deserialize(snap) ==
  Some(PersistentState(IF \E pr \in snap : pr[1] = "label"
                         THEN (CHOOSE pr \in snap : pr[1] = "label")[2]
                         ELSE PersistentStateDefault.label))

\* eframe::get_value(storage, APP_KEY) (app.rs:110)
GetValue(store) == IF store = None THEN None ELSE Deserialize(store[1])

\* Option::unwrap_or_default (app.rs:110)
UnwrapOrDefault(opt) == IF opt = None THEN PersistentStateDefault ELSE opt[1]

\* App::new (app.rs:105-111): the persistent state of the constructed App,
\* def being that of App::default().
RestoredState(def, st) == IF st # None THEN UnwrapOrDefault(GetValue(st[1])) ELSE def

\* App::save (app.rs:194-197), which the host calls only on a store it has.
StorageAfterSave(st, ps) == IF st # None THEN Some(Some(Serialize(ps))) ELSE st

(* ------------------------- the UI thread ------------------------------ *)
\* Load numbers are handed out in dispatch order; the handle a successful load
\* produces is identified by its load number.
Spawned == {w \in Workers : workers[w].pc # "none"}
NextLoad == Cardinality(Spawned) + 1

\* Mutant of Intake: a new drop replaces the file already in the slot.
IntakeOverwrites(slot, snap) ==
  IF snap # <<>> THEN <<snap[1]>> ELSE slot

\* handle_dropped_files, intake (app.rs:321-332): the first file of the
\* snapshot is taken only when the slot is empty.
Intake(slot, snap) ==
  IF snap # <<>> /\ slot = <<>> THEN <<snap[1]>> ELSE slot

\* handle_dropped_files (app.rs:335-336): the slot holds a file whose bytes
\* are present.
ReadyToDispatch(slot) == slot # <<>> /\ slot[1].bytes # None

\* Mutant of ImageAfterDispatch: the old disk image is kept at dispatch.
ImageAfterDispatchKeeps(img) == img

\* handle_dropped_files (app.rs:348-349): the old disk image is removed.
ImageAfterDispatch(img) == None

\* handle_dropped_files (app.rs:350-351)
NameAfterDispatch(file) == Some(file.name)

\* Mutant of ModeAfterSpawn: continuous mode is entered before the spawn's
\* outcome is known.
ModeAfterSpawnUnconditional(mode, spawned) == Continuous

\* handle_dropped_files (app.rs:376-385): Ok enters continuous mode, Err only logs.
ModeAfterSpawn(mode, spawned) == IF spawned THEN Continuous ELSE mode

\* handle_dropped_files (app.rs:387-393): the slot after the wait-for-bytes test.
SlotAfterDispatch(slot) == IF ReadyToDispatch(slot) THEN <<>> ELSE slot

\* worker::spawn_closure_worker, called at app.rs:354: Ok starts load number w
\* on the bytes of the file called name; on Err the closure never runs.
SpawnClosureWorker(ws, w, name, spawn_ok) ==
  IF spawn_ok
    THEN [ws EXCEPT ![w] = [pc |-> "running", name |-> Some(name), result |-> None,
                            pending |-> None, sent |-> <<>>]]
    ELSE ws

\* handle_loading_progress (app.rs:277-284)
ProgressBarOf(status) == IF status.kind = "Loading" THEN Some(status.val) ELSE None

\* handle_image_info (app.rs:215-223)
ImageInfoOf(img, name) ==
  IF img # None
    THEN Some([disk |-> img[1], name |-> IF name # None THEN name[1] ELSE "unknown"])
    ELSE None

\* str::trim_end_matches and str::trim_start_matches for a character c.
RECURSIVE TrimEndMatches(_, _)
TrimEndMatches(s, c) ==
  IF s # <<>> /\ s[Len(s)] = c THEN TrimEndMatches(SubSeq(s, 1, Len(s) - 1), c) ELSE s

RECURSIVE TrimStartMatches(_, _)
TrimStartMatches(s, c) ==
  IF s # <<>> /\ Head(s) = c THEN TrimStartMatches(Tail(s), c) ELSE s

\* Mutant of construct_full_url: the two parts are joined as they are.
construct_full_url_untrimmed(base, path) == base \o <<"/">> \o path

\* construct_full_url (util.rs:35-40); base is what getBaseURL returned.
construct_full_url(base, path) ==
  TrimEndMatches(base, "/") \o <<"/">> \o TrimStartMatches(path, "/")

\* One pass of App::update (app.rs:126-192) up to the receive loop of
\* handle_load_messages: the repaint request of continuous mode, then
\* handle_dropped_files, handle_loading_progress and handle_image_info.
\* snap is the frame's input snapshot, spawn_ok the outcome of
\* worker::spawn_closure_worker.
UpdatePass(snap, spawn_ok) ==
  /\ load_receiver
  /\ ui_pc = "idle"
  /\ LET slot == Intake(dropped_files, snap)
         go == ReadyToDispatch(slot)
         started == go /\ spawn_ok
         img == IF go THEN ImageAfterDispatch(disk_image) ELSE disk_image
         name == IF go THEN NameAfterDispatch(slot[1]) ELSE disk_image_name
     IN /\ disk_image' = img
        /\ disk_image_name' = name
        /\ workers' = IF go
                        THEN SpawnClosureWorker(workers, NextLoad, slot[1].name, spawn_ok)
                        ELSE workers
        /\ run_mode' = IF go THEN ModeAfterSpawn(run_mode, spawn_ok) ELSE run_mode
        /\ dropped_files' = SlotAfterDispatch(slot)
        /\ repaint' = \/ run_mode = Continuous          \* app.rs:134-136
                      \/ started                        \* app.rs:380
                      \/ (slot # <<>> /\ ~go)           \* app.rs:391
        /\ step' = [StepOf("update", None,
                            IF ~go THEN "none" ELSE IF spawn_ok THEN "ok" ELSE "failed",
                            IF started THEN NextLoad ELSE 0, snap)
                       EXCEPT !.bar = ProgressBarOf(load_status)]   \* app.rs:182
  /\ full_url' = Some(construct_full_url(base_url, relative_path))   \* app.rs:165
  /\ ui_pc' = "drain"
  /\ UNCHANGED <<load_status, chan, reports, load_receiver, applied, p_state, host>>

\* A frame the host runs because a repaint was requested; no user input.
RepaintTick == repaint /\ UpdatePass(<<>>, TRUE)

\* A frame the host runs because of user input, which may carry dropped files.
\* At most limit loads are dispatched over the run.
InputTickWithin(limit) ==
  \E snap \in Snapshots :
    /\ snap # <<>> => NextLoad <= limit
    /\ \E spawn_ok \in IF ReadyToDispatch(Intake(dropped_files, snap)) THEN BOOLEAN ELSE {TRUE} :
         UpdatePass(snap, spawn_ok)

InputTick == InputTickWithin(MaxLoads)

\* Mutant of StatusAfter: a progress fraction already shown is not replaced.
StatusAfterKeepsFirst(status, m) ==
  CASE m.kind = "Loading" -> IF status.kind = "Loading" THEN status ELSE Loading(m.val)
    [] m.kind = "Success" -> Inactive
    [] m.kind = "Error" -> Error
    [] OTHER -> status

\* Mutant of StatusAfter: a success leaves the load status as it was.
StatusAfterSuccessKeeps(status, m) ==
  CASE m.kind = "Loading" -> Loading(m.val)
    [] m.kind = "Error" -> Error
    [] OTHER -> status

\* handle_load_messages (app.rs:236-265): the effect of one received status.
StatusAfter(status, m) ==
  CASE m.kind = "Loading" -> Loading(m.val)
    [] m.kind = "Success" -> Inactive
    [] m.kind = "Error" -> Error
    [] OTHER -> status

\* Mutant of ImageAfter: a handle already stored is kept.
ImageAfterKeepsOld(img, m) == IF m.kind = "Success" /\ img = None THEN Some(m.val) ELSE img

ImageAfter(img, m) == IF m.kind = "Success" THEN Some(m.val) ELSE img

ModeAfter(mode, m) == IF m.kind \in {"Success", "Error"} THEN Reactive ELSE mode

RepaintAfter(rp, m) == IF m.kind \in {"Loading", "Success", "Error"} THEN TRUE ELSE rp

\* handle_load_messages (app.rs:233-268): try_recv returns a status.
Receive ==
  /\ load_receiver
  /\ ui_pc = "drain"
  /\ chan # <<>>
  /\ LET m == Head(chan)
     IN /\ chan' = Tail(chan)
        /\ load_status' = StatusAfter(load_status, m)
        /\ disk_image' = ImageAfter(disk_image, m)
        /\ run_mode' = ModeAfter(run_mode, m)
        /\ repaint' = RepaintAfter(repaint, m)
        /\ applied' = [applied EXCEPT ![m.from] = Append(@, m.kind)]
        /\ step' = StepOf("recv", Some(m), "none", m.from, <<>>)
  /\ UNCHANGED <<dropped_files, disk_image_name, workers, ui_pc, reports, load_receiver,
                 p_state, host, full_url>>

\* Mutant of EndDrain: a blocking receive, which returns on an empty channel
\* only once no worker can send any more.
EndDrainBlocking ==
  /\ ui_pc = "drain"
  /\ chan = <<>>
  /\ \A w \in DOMAIN workers : workers[w].pc \notin {"running", "blocked"}
  /\ ui_pc' = "idle"
  /\ step' = StepOf("end", None, "none", 0, <<>>)
  /\ UNCHANGED <<run_mode, dropped_files, load_status, disk_image, disk_image_name, chan,
                 workers, repaint, reports, load_receiver, applied, p_state, host, full_url>>

\* Mutant of EndDrain: the receive loop may end while statuses are buffered.
EndDrainEarly ==
  /\ ui_pc = "drain"
  /\ ui_pc' = "idle"
  /\ step' = StepOf("end", None, "none", 0, <<>>)
  /\ UNCHANGED <<run_mode, dropped_files, load_status, disk_image, disk_image_name, chan,
                 workers, repaint, reports, load_receiver, applied, p_state, host, full_url>>

\* handle_load_messages (app.rs:269-271): try_recv finds the channel empty;
\* the receive loop and the update pass end.
EndDrain ==
  /\ ui_pc = "drain"
  /\ chan = <<>>
  /\ ui_pc' = "idle"
  /\ step' = StepOf("end", None, "none", 0, <<>>)
  /\ UNCHANGED <<run_mode, dropped_files, load_status, disk_image, disk_image_name, chan,
                 workers, repaint, reports, load_receiver, applied, p_state, host, full_url>>

(* ------------------------ the load workers ---------------------------- *)
\* The progress callback (app.rs:358-366): only a Progress status is sent on.
CallbackMessage(status) ==
  IF status.kind = "Progress" THEN Some(Loading(status.val)) ELSE None

\* Mutant of TerminalMessage: the loader's error is reported as a success.
TerminalMessageIgnoresError(result, w) == Success(w)

\* The completion of DiskImage::load (app.rs:368-374).
TerminalMessage(result, w) == IF result = "Ok" THEN Success(w) ELSE Error

\* Statuses the external loader may pass to the callback.
LoadingStatus == [kind : {"Progress"}, val : Fractions] \cup {[kind |-> "Complete", val |-> 0]}

\* SyncSender::send by worker w (app.rs:362, 370, 373): the status is
\* buffered when the channel has room; otherwise the worker blocks holding it.
\* A worker that has sent its terminal status has run its closure to the end.
\* Once the receiving end is dropped send returns an error, and the unwrap
\* of it panics the worker.
Send(w, status, result) ==
  IF ~load_receiver
    THEN /\ chan' = chan
         /\ workers' = [workers EXCEPT ![w].pending = None,
                                       ![w].result = result,
                                       ![w].pc = "panicked"]
  ELSE IF Len(chan) < ChannelCapacity
    THEN LET m == Msg(status, w, Len(workers[w].sent) + 1)
         IN /\ chan' = Append(chan, m)
            /\ workers' = [workers EXCEPT ![w].sent = Append(@, m.kind),
                                          ![w].pending = None,
                                          ![w].result = result,
                                          ![w].pc = IF IsTerminal(m) THEN "done" ELSE "running"]
    ELSE /\ chan' = chan
         /\ workers' = [workers EXCEPT ![w].pending = Some(status),
                                       ![w].result = result,
                                       ![w].pc = "blocked"]

\* The external loader of worker w invokes the callback (app.rs:358-366);
\* at most limit progress reports are made over the run.
WorkerCallbackWithin(w, limit) ==
  /\ workers[w].pc = "running"
  /\ reports < limit
  /\ \E status \in LoadingStatus :
       LET out == CallbackMessage(status)
       IN /\ IF out # None THEN Send(w, out[1], None) ELSE UNCHANGED <<chan, workers>>
          /\ reports' = IF status.kind = "Progress" THEN reports + 1 ELSE reports
  /\ step' = WorkerStep
  /\ UNCHANGED <<run_mode, dropped_files, load_status, disk_image, disk_image_name,
                 ui_pc, repaint, load_receiver, applied, p_state, host, full_url>>

WorkerCallback(w) == WorkerCallbackWithin(w, MaxProgress)

\* The external loader of worker w returns a handle or an error (app.rs:368-374).
WorkerReturn(w) ==
  /\ workers[w].pc = "running"
  /\ \E result \in {"Ok", "Err"} : Send(w, TerminalMessage(result, w), Some(result))
  /\ step' = WorkerStep
  /\ UNCHANGED <<run_mode, dropped_files, load_status, disk_image, disk_image_name,
                 ui_pc, repaint, reports, load_receiver, applied, p_state, host, full_url>>

\* A worker blocked in send finds room in the channel.
WorkerUnblock(w) ==
  /\ workers[w].pc = "blocked"
  /\ Len(chan) < ChannelCapacity
  /\ Send(w, workers[w].pending[1], workers[w].result)
  /\ step' = WorkerStep
  /\ UNCHANGED <<run_mode, dropped_files, load_status, disk_image, disk_image_name,
                 ui_pc, repaint, reports, load_receiver, applied, p_state, host, full_url>>

Next ==
  \/ RepaintTick
  \/ InputTick
  \/ Receive
  \/ EndDrain
  \/ \E w \in Workers : WorkerCallback(w)
  \/ \E w \in Workers : WorkerReturn(w)
  \/ \E w \in Workers : WorkerUnblock(w)

Spec == Init /\ [][Next]_vars

\* Runs of fewer loads with more progress reports.
NextProgress ==
  \/ RepaintTick
  \/ InputTickWithin(ProgressLoads)
  \/ Receive
  \/ EndDrain
  \/ \E w \in Workers : WorkerCallbackWithin(w, ProgressReports)
  \/ \E w \in Workers : WorkerReturn(w)
  \/ \E w \in Workers : WorkerUnblock(w)

SpecProgress == Init /\ [][NextProgress]_vars

\* The host closes the application between two frames (File > Quit,
\* app.rs:146-148, or the window's close button): it has App::save write
\* the persistent state and drops the App, and with it the receiving end of
\* the channel and the statuses buffered in it.  The workers are detached.
Shutdown ==
  /\ load_receiver
  /\ ui_pc = "idle"
  /\ storage' = StorageAfterSave(storage, p_state)
  /\ load_receiver' = FALSE
  /\ chan' = <<>>
  /\ step' = StepOf("shutdown", None, "none", 0, <<>>)
  /\ UNCHANGED <<run_mode, dropped_files, load_status, disk_image, disk_image_name,
                 workers, ui_pc, repaint, reports, applied, p_state, runs, base_url,
                 relative_path, full_url>>

NextShutdown == Next \/ Shutdown

SpecShutdown == Init /\ [][NextShutdown]_vars

\* The host's persistence cycle: it constructs the App on its store, runs
\* frames, has it save now and then, and closes it.
InitPersist ==
  /\ AppDefault
  /\ load_receiver = FALSE
  /\ storage \in Storages
  /\ runs = 0
  /\ base_url = HostBase
  /\ relative_path = LogoPath

\* App::new (app.rs:101-121): App::default() (app.rs:74-97) with the
\* persistent state restored from the host's store.
AppNew ==
  /\ ~load_receiver
  /\ runs < MaxRuns
  /\ p_state' = RestoredState(PersistentState("Hello World!"), storage)
  /\ run_mode' = Reactive
  /\ dropped_files' = <<>>
  /\ load_status' = Inactive
  /\ disk_image' = None
  /\ disk_image_name' = None
  /\ chan' = <<>>
  /\ load_receiver' = TRUE
  /\ ui_pc' = "idle"
  /\ repaint' = TRUE
  /\ full_url' = None
  /\ runs' = runs + 1
  /\ step' = StepOf("new", None, "none", 0, <<>>)
  /\ UNCHANGED <<workers, reports, applied, storage, base_url, relative_path>>

\* App::save (app.rs:194-197), called by the host between two frames.
Save ==
  /\ load_receiver
  /\ ui_pc = "idle"
  /\ storage # None
  /\ storage' = StorageAfterSave(storage, p_state)
  /\ step' = StepOf("save", None, "none", 0, <<>>)
  /\ UNCHANGED <<run_mode, dropped_files, load_status, disk_image, disk_image_name, chan,
                 workers, ui_pc, repaint, reports, load_receiver, applied, p_state, runs,
                 base_url, relative_path, full_url>>

NextPersist ==
  \/ AppNew
  \/ RepaintTick
  \/ EndDrain
  \/ Save
  \/ Shutdown

SpecPersist == InitPersist /\ [][NextPersist]_vars

\* A call of construct_full_url on inputs of the host's and caller's choice.
InitUrl ==
  /\ AppDefault
  /\ load_receiver = TRUE
  /\ storage = None
  /\ runs = 1
  /\ base_url \in Bases
  /\ relative_path \in Paths

ResolveAsset ==
  /\ full_url = None
  /\ full_url' = Some(construct_full_url(base_url, relative_path))
  /\ UNCHANGED <<run_mode, dropped_files, load_status, disk_image, disk_image_name, chan,
                 workers, ui_pc, repaint, reports, load_receiver, applied, step, p_state, host>>

SpecUrl == InitUrl /\ [][ResolveAsset]_vars

\* The UI thread is never suspended inside a pass: the receive loop
\* (app.rs:232-273) keeps taking steps.  Nothing is assumed of the workers.
FairSpec == SpecProgress /\ WF_vars(Receive \/ EndDrain)

(* --------------------------- the claims ------------------------------- *)
\* Worker w was spawned and the UI thread has not yet drained its terminal
\* status: the closure is still running, or the terminal status is buffered.
Undrained(w) ==
  \/ workers[w].pc \in {"running", "blocked"}
  \/ \E i \in 1..Len(chan) : chan[i].from = w /\ IsTerminal(chan[i])

LoadsInFlight == {w \in Workers : Undrained(w)}

\* The step just taken was an update pass (up to the receive loop).
UpdateStep == step.op = "update"
\* The step just taken received status kind k from the channel.
Received(k) == step.op = "recv" /\ step.msg[1].kind = k

\* C1: at most one background load is alive at any time: no second worker is
\* spawned while a dispatched load has not had its terminal status delivered.
C1_AtMostOneLoadAlive == Cardinality(LoadsInFlight) <= 1

\* C2: at the end of an update pass, the redraw mode is Continuous whenever
\* some dispatched load has not yet had its terminal status drained.
C2_ContinuousWhileLoading ==
  (step.op = "end" /\ LoadsInFlight # {}) => run_mode = Continuous

\* What happens without user input: repaint frames, the receive loop and the
\* workers.
NextWithoutInput ==
  \/ RepaintTick
  \/ Receive
  \/ EndDrain
  \/ \E w \in Workers : WorkerCallback(w) \/ WorkerReturn(w) \/ WorkerUnblock(w)

\* C3: every dispatched load runs to completion without further user input:
\* while a load's terminal status is undrained, some step of the workers or of
\* the UI thread that needs no user input is still to come.
C3_LoadCompletesWithoutInput == LoadsInFlight # {} => ENABLED NextWithoutInput

\* C4: a worker sends Loading statuses followed by exactly one terminal
\* status, Success when the loader returned a handle and Error when it
\* returned an error; the terminal status is its last send, and it never
\* sends Inactive.
C4_WorkerProtocol ==
  \A w \in Workers :
    LET sent == workers[w].sent
        n == Len(sent)
    IN /\ \A i \in 1..n : sent[i] \in {"Loading", "Success", "Error"}
       /\ \A i \in 1..n : i < n => sent[i] = "Loading"
       /\ workers[w].pc = "done" <=> (n > 0 /\ sent[n] \in {"Success", "Error"})
       /\ workers[w].pc = "done" =>
            /\ workers[w].result # None
            /\ sent[n] = IF workers[w].result[1] = "Ok" THEN "Success" ELSE "Error"
       /\ workers[w].pc = "none" => n = 0

C4_Witness ==
  \E w \in Workers : workers[w].pc = "done" /\ workers[w].sent = <<"Loading", "Error">>

\* C5: immediately after a Success status is drained, the redraw mode is
\* Reactive, the stored image is the handle of that status and load_status is
\* Inactive.
C5_AfterSuccess ==
  Received("Success") =>
    /\ run_mode = Reactive
    /\ disk_image = Some(step.msg[1].val)
    /\ load_status = Inactive

\* The Success of load 2 has just been drained after the Success of load 1 was.
C5_Witness ==
  /\ Received("Success")
  /\ step.msg[1].val = 2
  /\ workers[1].pc = "done" /\ workers[1].result = Some("Ok") /\ ~Undrained(1)

\* C6: immediately after an Error status is drained, the redraw mode is
\* Reactive, load_status is Error and no image handle is stored.
C6_AfterError ==
  Received("Error") =>
    /\ run_mode = Reactive
    /\ load_status = Error
    /\ disk_image = None

\* C7: the dispatch step clears the stored handle whether or not the spawn
\* succeeds, and the handle stays None while a dispatched load has not had
\* its terminal status drained.
C7_NoImageWhileLoading ==
  /\ (UpdateStep /\ step.dispatch # "none") => disk_image = None
  /\ LoadsInFlight # {} => disk_image = None

\* C8: when the byte buffer of the pending file arrives in a later frame than
\* the drop, that frame hands the file to the dispatcher and clears the slot.
C8_LateBytesDispatched ==
  [][(/\ ui_pc = "idle" /\ ui_pc' = "drain"
      /\ dropped_files # <<>>
      /\ step'.first # None
      /\ step'.first[1].name = dropped_files[1].name
      /\ step'.first[1].bytes # None)
     => (step'.dispatch # "none" /\ dropped_files' = <<>>)]_vars

\* C9: the pending-file slot holds at most one file; of a snapshot with
\* several files only the first is accepted; a drop arriving while the slot
\* holds a file without bytes leaves the slot unchanged.
C9_SingleSlot ==
  /\ Len(dropped_files) <= 1
  /\ [][/\ Len(dropped_files') <= 1
        /\ (ui_pc = "idle" /\ ui_pc' = "drain" /\ step'.nfiles >= 1) =>
             IF dropped_files = <<>>
               THEN IF step'.first[1].bytes # None
                      THEN /\ dropped_files' = <<>>
                           /\ step'.dispatch # "none"
                           /\ disk_image_name' = Some(step'.first[1].name)
                      ELSE dropped_files' = step'.first
               ELSE /\ dropped_files' = dropped_files
                    /\ step'.dispatch = "none"]_vars

\* A snapshot of several files arrived while the slot held another file
\* whose bytes are absent.
C9_Witness ==
  /\ UpdateStep /\ step.nfiles >= 2
  /\ dropped_files # <<>> /\ dropped_files # step.first
  /\ dropped_files[1].bytes = None

\* C10: the redraw mode starts Reactive; it becomes Continuous only in a step
\* that dispatches a load successfully and Reactive only in a step that drains
\* a terminal status; no other step changes it.
C10_ModeTransitions ==
  /\ run_mode = Reactive
  /\ [][run_mode' # run_mode =>
          \/ /\ run_mode = Reactive /\ run_mode' = Continuous
             /\ step'.op = "update" /\ step'.dispatch = "ok"
          \/ /\ run_mode = Continuous /\ run_mode' = Reactive
             /\ step'.op = "recv" /\ IsTerminal(step'.msg[1])]_vars

\* A terminal status has just been drained and has switched the mode back
\* while a file without bytes is waiting in the slot.
C10_Witness ==
  /\ step.op = "recv" /\ IsTerminal(step.msg[1])
  /\ run_mode = Reactive
  /\ dropped_files # <<>>

\* C11: when spawning the worker fails, the dispatch step leaves the redraw
\* mode unchanged, starts no worker (so no status is ever sent for that
\* file), clears the pending-file slot and leaves no image handle stored.
C11_SpawnFailure ==
  [][(step'.op = "update" /\ step'.dispatch = "failed") =>
       /\ run_mode' = run_mode
       /\ workers' = workers
       /\ chan' = chan
       /\ dropped_files' = <<>>
       /\ disk_image' = None]_vars

\* A spawn has just failed after an earlier load had succeeded and been drained.
C11_Witness ==
  /\ UpdateStep /\ step.dispatch = "failed"
  /\ workers[1].result = Some("Ok") /\ ~Undrained(1)
  /\ run_mode = Reactive /\ dropped_files = <<>> /\ disk_image = None

\* Some worker's closure is still running (possibly blocked in a send).
WorkerRunning == \E w \in Workers : workers[w].pc \in {"running", "blocked"}

\* C17: when no worker is running and the channel is empty, the load status
\* is not Loading.
C17_NoStaleLoading ==
  (~WorkerRunning /\ chan = <<>>) => load_status.kind # "Loading"

\* A load that reported progress has succeeded and been drained completely.
C17_Witness ==
  /\ ~WorkerRunning /\ chan = <<>>
  /\ \E w \in Workers : workers[w].sent = <<"Loading", "Success">>
  /\ load_status = Inactive

\* C18: whenever a disk image is stored, the stored name is the name of the
\* file that image was loaded from.
C18_NameMatchesImage ==
  disk_image # None => disk_image_name = workers[disk_image[1]].name

\* The kinds of the statuses of worker w buffered in channel c, in order.
RECURSIVE Buffered(_, _)
Buffered(c, w) ==
  IF c = <<>> THEN <<>>
  ELSE IF Head(c).from = w THEN <<Head(c).kind>> \o Buffered(Tail(c), w)
  ELSE Buffered(Tail(c), w)

\* No Loading follows a terminal status in the sequence of kinds q.
NoLoadingAfterTerminal(q) ==
  \A i, j \in 1..Len(q) :
    (i < j /\ q[i] \in {"Success", "Error"}) => q[j] # "Loading"

\* C15: an update pass drains the channel fully and loses nothing: the
\* receive loop goes on after every status received and ends only when the
\* channel is empty; what each worker sent is, in order, what the UI applied
\* followed by what is still buffered, so every status is applied exactly
\* once and in sending order; no Loading is applied after its load's
\* terminal status.
C15_DrainComplete ==
  /\ step.op = "recv" => ui_pc = "drain"
  /\ step.op = "end" => chan = <<>>
  /\ \A w \in Workers :
       /\ workers[w].sent = applied[w] \o Buffered(chan, w)
       /\ NoLoadingAfterTerminal(applied[w])

\* A pass has ended after the statuses of two loads, one of which reported
\* progress, have all been applied.
C15_Witness ==
  /\ step.op = "end"
  /\ \A w \in Workers : applied[w] # <<>> /\ applied[w] = workers[w].sent
  /\ \E w \in Workers : Len(applied[w]) = 2

\* C16: an update pass never blocks on a worker: between frames a pass can
\* always run through dispatch to the receive loop, inside the receive loop
\* the UI thread always has a step to take whatever the workers are doing,
\* and the loop comes to its end.
C16_PassNeverBlocks ==
  /\ [](ui_pc = "idle" => ENABLED InputTickWithin(ProgressLoads))
  /\ [](ui_pc = "drain" => ENABLED (Receive \/ EndDrain))
  /\ (ui_pc = "drain" ~> ui_pc = "idle")

\* The UI thread is in the receive loop with nothing buffered while a
\* worker that filled the channel is still blocked on its send.
C16_Witness ==
  /\ ui_pc = "drain" /\ chan = <<>>
  /\ \E w \in Workers : workers[w].pc = "blocked" /\ Len(applied[w]) = ChannelCapacity

\* C12: the progress shown is the most recently drained Loading fraction:
\* receiving Loading(p) sets the load status to Loading(p), nothing but a
\* received status changes the load status (so after a drain whose last
\* applied status was Loading(p) the load status is Loading(p)), and an
\* update pass renders the progress bar, with the fraction of the load
\* status, exactly when the load status is Loading.
C12_ProgressShown ==
  [][/\ (step'.op = "recv" /\ step'.msg[1].kind = "Loading")
          => load_status' = Loading(step'.msg[1].val)
     /\ step'.op # "recv" => load_status' = load_status
     /\ step'.op = "update"
          => /\ step'.bar # None <=> load_status'.kind = "Loading"
             /\ step'.bar # None => step'.bar[1] = load_status'.val]_vars

\* A pass renders the bar at the fraction of the second progress report of a
\* load, both reports having been applied.
C12_Witness ==
  /\ UpdateStep /\ step.bar = Some(75)
  /\ \E w \in Workers : applied[w] = <<"Loading", "Loading">> /\ workers[w].pc = "running"
  /\ load_status = Loading(75)

\* C13 as claimed: resolving "./x.png" against "http://host/app" yields
\* "http://host/app/x.png", whatever slashes end the base or start the path.
C13_UrlAsClaimed ==
  (/\ full_url # None
   /\ \E n \in 0..MaxSlashes : base_url = HostBase \o Slashes(n)
   /\ \E n \in 0..MaxSlashes : relative_path = Slashes(n) \o DotPath)
  => full_url[1] = HostBase \o <<"/">> \o PlainPath

\* C13, amended: construct_full_url joins the base without its trailing
\* slashes and the path without its leading slashes by exactly one slash,
\* whatever the number of those slashes; a leading "./" of the path is kept,
\* so "./x.png" against "http://host/app" yields "http://host/app/./x.png".
C13_UrlJoined ==
  full_url # None =>
    \A b \in BaseStems, q \in PathStems, n, m \in 0..MaxSlashes :
      (base_url = b \o Slashes(n) /\ relative_path = Slashes(m) \o q)
        => full_url[1] = b \o <<"/">> \o q

\* "./x.png" has been resolved against "http://host/app", both with the
\* most slashes.
C13_Witness ==
  /\ base_url = HostBase \o Slashes(MaxSlashes)
  /\ relative_path = Slashes(MaxSlashes) \o DotPath
  /\ full_url = Some(HostBase \o <<"/", ".", "/">> \o PlainPath)

\* The label of a stored snapshot that has one.
HasLabel(st) == st # None /\ st[1] # None /\ \E pr \in st[1][1] : pr[1] = "label"
LabelOf(st) == (CHOOSE pr \in st[1][1] : pr[1] = "label")[2]

\* C14: the persistent label round-trips through save and load: App::new
\* restores the label of the stored snapshot, which is the label the
\* previous shutdown saved; from a snapshot without the label field, or a
\* store without a snapshot, it yields the label App::default() starts with.
C14_LabelRoundTrip ==
  [][/\ (step'.op = "new" /\ HasLabel(storage)) => p_state'.label = LabelOf(storage)
     /\ (step'.op = "new" /\ ~HasLabel(storage)) => p_state'.label = "Hello World!"
     /\ (step'.op = "shutdown" /\ storage # None)
          => HasLabel(storage') /\ LabelOf(storage') = p_state.label]_vars

\* C19: a worker's send never fails: while a worker may still send, the
\* receiving end of the channel exists, and no worker panics in the unwrap
\* of a send.
C19_SendNeverFails ==
  \A w \in Workers :
    /\ workers[w].pc \in {"running", "blocked"} => load_receiver
    /\ workers[w].pc # "panicked"

====
